---- MODULE Spec2Model ----
(***************************************************************************)
(* Prompt-execution pipeline of NoBOLD: the two provider drivers           *)
(*   tools/Data prep/run_prompts_from_csv_gemini.py      ("gemini")        *)
(*   tools/Data prep/run_prompts_from_csv_openai_chat.py ("openai")        *)
(* Row selection, prompt extraction, the retry/backoff controller around   *)
(* one provider call, record accumulation and the final CSV write.         *)
(*                                                                         *)
(* Python strings are sequences of one-character strings, so that strip(), *)
(* lower(), "k in msg" and emptiness are computed, not assumed.            *)
(***************************************************************************)
EXTENDS Integers, Sequences, FiniteSets, TLC

\* ---------------------------------------------------------------- constants
MAX_RETRIES == 6
RETRIES == 3

\* ------------------------------------------------------------------- bounds
MaxRows == 2
MaxPrompts == 3
MaxCellLen == 3

\* ------------------------------------------------------------------ strings
None == <<"<None>">>

Whitespace == {" "}

Truthy(s) == s # None /\ s # <<>>

OrElse(a, b) == IF Truthy(a) THEN a ELSE b

RECURSIVE lstrip(_)
lstrip(s) == IF s # <<>> /\ Head(s) \in Whitespace THEN lstrip(Tail(s)) ELSE s

RECURSIVE rstrip(_)
rstrip(s) == IF s # <<>> /\ s[Len(s)] \in Whitespace
             THEN rstrip(SubSeq(s, 1, Len(s) - 1)) ELSE s

strip(s) == rstrip(lstrip(s))

UpperLetters == <<"A","B","C","D","E","F","G","H","I","J","K","L","M",
                  "N","O","P","Q","R","S","T","U","V","W","X","Y","Z">>

LowerLetters == <<"a","b","c","d","e","f","g","h","i","j","k","l","m",
                  "n","o","p","q","r","s","t","u","v","w","x","y","z">>

LowerChar(c) == IF \E i \in DOMAIN UpperLetters : UpperLetters[i] = c
                THEN LowerLetters[CHOOSE i \in DOMAIN UpperLetters : UpperLetters[i] = c]
                ELSE c

lower(s) == [i \in DOMAIN s |-> LowerChar(s[i])]

\* Python's "k in msg" on strings: k occurs as a contiguous substring
Contains(msg, k) == \E i \in 0..(Len(msg) - Len(k)) : SubSeq(msg, i + 1, i + Len(k)) = k

RECURSIVE join(_)
join(parts) == IF parts = <<>> THEN <<>> ELSE Head(parts) \o join(Tail(parts))

\* ---------------------------------------------------------------- sentinels
EMPTY == <<"[","E","M","P","T","Y","]">>

ERROR == <<"[","E","R","R","O","R","]">>

BLOCKED == <<"(","b","l","o","c","k","e","d",")">>

TOO_MANY == <<"E","R","R","O","R",":"," ","t","o","o"," ","m","a","n","y"," ",
              "r","e","t","r","i","e","s"," ","d","u","e"," ","t","o"," ",
              "r","a","t","e"," ","l","i","m","i","t","s">>

EMPTY_OR_BLOCKED(fin) == <<"[","E","M","P","T","Y","_","O","R","_","B","L","O","C","K","E","D",
                           " ","f","i","n","i","s","h","_","r","e","a","s","o","n","=">>
                         \o fin \o <<"]">>

\* ------------------------------------------------- what the provider SDK does
\* One adapter call either returns a response object or raises an exception.
RateLimitError == <<"R","a","t","e","L","i","m","i","t","E","r","r","o","r">>

APIError == <<"A","P","I","E","r","r","o","r">>

KeyError == <<"K","e","y","E","r","r","o","r">>

STOP == <<"S","T","O","P">>

SAFETY == <<"S","A","F","E","T","Y">>

Exc(type, msg) == [kind |-> "exc", type |-> type, msg |-> msg]

F_rate == Exc(RateLimitError, <<"R","a","t","e">>)

F_blocked == Exc(APIError, <<"B","l","o","c","k","e","d">>)

F_quota_blocked == Exc(APIError, <<"q","u","o","t","a"," ","b","l","o","c","k","e","d">>)

F_boom == Exc(KeyError, <<"b","o","o","m">>)

Failures == {F_rate, F_blocked, F_quota_blocked, F_boom}

\* google.generativeai response: .text and .candidates[*].content.parts[*].text
GResp(text, cands) == [kind |-> "resp", text |-> text, candidates |-> cands]

Cand(parts, fin) == [parts |-> parts, finish_reason |-> fin]

\* .text is set
G_text == GResp(<<"o","k"," ">>, <<>>)

\* .text is empty, the text is in the parts of the candidate
G_parts == GResp(<<>>, <<Cand(<<<<" ","o">>, <<>>, <<"k">>>>, STOP)>>)

\* no text at all, the candidate records a safety finish reason
G_safety == GResp(<<>>, <<Cand(<<>>, SAFETY)>>)

\* whitespace only, no candidates
G_blank == GResp(<<" ">>, <<>>)

GeminiResponses == {G_text, G_parts, G_safety, G_blank}

\* openai chat completion: .choices[0].message.content
OResp(content) == [kind |-> "resp", content |-> content]

O_text == OResp(<<" ","o","k">>)

O_none == OResp(None)

O_blank == OResp(<<" ">>)

OpenAIResponses == {O_text, O_none, O_blank}

Outcomes(p) == (IF p = "gemini" THEN GeminiResponses ELSE OpenAIResponses) \cup Failures

NoOutcome == [kind |-> "none"]

\* --------------------------------------------------------------- input rows
PromptCols == <<"prompt_1", "prompt_2", "prompt_3">>

\* row.get(col, "")
Get(row, col) == IF col \in DOMAIN row THEN row[col] ELSE <<>>

RECURSIVE StripAll(_)
StripAll(ps) == IF ps = <<>> THEN <<>> ELSE <<strip(Head(ps))>> \o StripAll(Tail(ps))

\* variant: cells are tested before trimming only
ensure_prompts_untrimmed(row) ==
  LET ps == <<Get(row, "prompt_1"), Get(row, "prompt_2"), Get(row, "prompt_3")>>
  IN StripAll(SelectSeq(ps, Truthy))

\* variant: the kept cells are returned as they are
ensure_prompts_padded(row) ==
  LET ps == <<Get(row, "prompt_1"), Get(row, "prompt_2"), Get(row, "prompt_3")>>
      Keep(p) == Truthy(p) /\ Truthy(strip(p))
  IN SelectSeq(ps, Keep)

ensure_prompts(row) ==
  LET ps == <<Get(row, "prompt_1"), Get(row, "prompt_2"), Get(row, "prompt_3")>>
      Keep(p) == Truthy(p) /\ Truthy(strip(p))
  IN StripAll(SelectSeq(ps, Keep))

\* variant: the header row is not counted in the visual index
SelectNoHeader(mode, rows) ==
  IF mode = "first" THEN << <<2, rows[1]>> >>
  ELSE [i \in 1..Len(rows) |-> <<(i - 1) + 1, rows[i]>>]

\* [(2, rows_in[0])] if rows == "first" else [(i+2, r) for i, r in enumerate(rows_in)]
Select(mode, rows) ==
  IF mode = "first" THEN << <<2, rows[1]>> >>
  ELSE [i \in 1..Len(rows) |-> <<(i - 1) + 2, rows[i]>>]

\* -------------------------------------------------- retry/backoff controller
RateKeys == { <<"4","2","9">>, <<"r","a","t","e">>, <<"q","u","o","t","a">>,
              <<"r","e","s","o","u","r","c","e"," ","e","x","h","a","u","s","t","e","d">>,
              <<"b","u","s","y">> }

IsRateLimited(msg) == \E k \in RateKeys : Contains(msg, k)

\* variant: only "safety" is recognised
IsSafetyBlockSafetyOnly(msg) == Contains(msg, <<"s","a","f","e","t","y">>)

IsSafetyBlock(msg) == Contains(msg, <<"s","a","f","e","t","y">>)
                      \/ Contains(msg, <<"b","l","o","c","k","e","d">>)

\* f"{type(e).__name__}: {e}"
ErrText(e) == e.type \o <<":", " ">> \o e.msg

Result(text, err) == [response_text |-> text, error |-> err]

RECURSIVE StitchParts(_)
StitchParts(cands) ==
  IF cands = <<>> THEN <<>>
  ELSE SelectSeq(Head(cands).parts, Truthy) \o StitchParts(Tail(cands))

GeminiText(resp) ==
  LET text0 == OrElse(resp.text, <<>>)
      text1 == IF ~Truthy(text0) /\ resp.candidates # <<>>
               THEN join(StitchParts(resp.candidates)) ELSE text0
  IN strip(OrElse(text1, <<>>))

\* variant: no sentinel is substituted for an empty text
GeminiSuccessNoSentinel(resp) == Result(GeminiText(resp), <<>>)

GeminiSuccess(resp) ==
  LET text == GeminiText(resp)
  IN IF ~Truthy(text) /\ resp.candidates # <<>>
     THEN Result(EMPTY_OR_BLOCKED(resp.candidates[1].finish_reason), <<>>)
     ELSE Result(OrElse(text, EMPTY), <<>>)

GeminiBlocked == Result(BLOCKED, <<>>)

GeminiError(e) == Result(ERROR, ErrText(e))

GeminiExhausted == Result(TOO_MANY, <<>>)

\* variant: one attempt too many
GeminiRangeOffByOne == 0..MAX_RETRIES

\* range(MAX_RETRIES)
GeminiRange == 0..(MAX_RETRIES - 1)

OpenAISuccess(resp) ==
  LET text == strip(OrElse(resp.content, <<>>))
  IN Result(IF Truthy(text) THEN text ELSE EMPTY, <<>>)

\* variant: the last failure is dropped
OpenAIExhaustedNoError(err) == Result(ERROR, <<>>)

OpenAIExhausted(err) == Result(ERROR, err)

\* range(1, RETRIES+1)
OpenAIRange == 1..RETRIES

\* variant: the loop variable is advanced twice per iteration
NextAttemptSkips(a) == a + 2

NextAttempt(a) == a + 1

\* -------------------------------------------------------------------- state
VARIABLES
  provider,   \* which script runs: "gemini" or "openai"
  hasKey,     \* the credential environment variable is set and non-empty
  mode,       \* args.rows
  csv_rows,   \* the data rows of the input file
  adapter,    \* the outcomes the provider produces in this run
  pc,         \* position of main()
  exitCode,   \* process exit status, NoExit while running
  rows_in,    \* read_csv_rows(args.input)
  selected,   \* (visual_idx, row) pairs
  si,         \* position of the row loop in selected
  prompts,    \* ensure_prompts(row) of the current row
  j,          \* enumerate(prompts, start=1)
  attempt,    \* loop variable of the controller
  last_err,   \* openai: last_err
  res,        \* the CallResult the controller returned
  out_rows,   \* accumulated ResultRecords
  output,     \* content of the output CSV, NotWritten until written
  writes,     \* number of write_results_csv calls
  calls,      \* adapter calls made for the current prompt
  failed,     \* failures the adapter raised for the current prompt
  last,       \* outcome of the latest adapter call for the current prompt
  sleeps,     \* backoff sleeps taken for the current prompt
  naps        \* politeness sleeps taken in the run

vars == <<provider, hasKey, mode, csv_rows, adapter, pc, exitCode, rows_in, selected, si,
          prompts, j, attempt, last_err, res, out_rows, output, writes,
          calls, failed, last, sleeps, naps>>

inputs == <<provider, hasKey, mode, csv_rows, adapter>>

loopVars == <<selected, si, prompts, j>>

callVars == <<attempt, last_err, calls, failed, last, sleeps>>

NoExit == 0 - 1

NotWritten == << <<"<no file>">> >>

NoResult == Result(<<>>, <<>>)

\* input rows: no prompt (whitespace, empty, missing cell), one, two, three prompts
RowNone == [prompt_1 |-> <<" ">>, prompt_2 |-> <<>>, prompt_3 |-> None]

RowOne == [prompt_1 |-> <<>>, prompt_2 |-> <<" ","a">>, prompt_3 |-> <<" ">>]

RowTwo == [prompt_1 |-> <<"a"," ">>, prompt_2 |-> <<" ">>, prompt_3 |-> <<"b">>]

RowThree == [prompt_1 |-> <<"a">>, prompt_2 |-> <<"b"," ">>, prompt_3 |-> <<" ","c">>]

DriverRows == {RowNone, RowOne, RowTwo, RowThree}

RECURSIVE SeqsUpTo(_, _)
SeqsUpTo(S, n) ==
  IF n = 0 THEN { <<>> }
  ELSE LET shorter == SeqsUpTo(S, n - 1)
       IN shorter \cup { Append(q, x) : q \in {t \in shorter : Len(t) = n - 1}, x \in S }

RECURSIVE CountPrompts(_)
CountPrompts(rows) ==
  IF rows = <<>> THEN 0 ELSE Len(ensure_prompts(Head(rows))) + CountPrompts(Tail(rows))

DriverInputs == { rows \in SeqsUpTo(DriverRows, MaxRows) : CountPrompts(rows) <= MaxPrompts }

\* providers of a whole run: one that answers or fails, one that blocks
DriverAdapters(p) ==
  IF p = "gemini" THEN { {G_text, F_rate, F_boom}, {G_safety, G_blank, F_blocked} }
  ELSE { {O_text, F_rate, F_boom}, {O_none, F_blocked} }

Start ==
  /\ pc = "start"
  /\ exitCode = NoExit
  /\ rows_in = <<>>
  /\ selected = <<>>
  /\ si = 1
  /\ prompts = <<>>
  /\ j = 1
  /\ attempt = 0
  /\ last_err = <<>>
  /\ res = NoResult
  /\ out_rows = <<>>
  /\ output = NotWritten
  /\ writes = 0
  /\ calls = 0
  /\ failed = {}
  /\ last = NoOutcome
  /\ sleeps = 0
  /\ naps = 0

\* whole runs of either script
Init ==
  /\ provider \in {"gemini", "openai"}
  /\ hasKey \in BOOLEAN
  /\ mode \in {"first", "all"}
  /\ csv_rows \in DriverInputs
  /\ adapter \in DriverAdapters(provider)
  /\ Start

\* runs over a single input row, against a provider that can produce every outcome
InitCall ==
  /\ provider \in {"gemini", "openai"}
  /\ hasKey \in BOOLEAN
  /\ mode \in {"first", "all"}
  /\ csv_rows \in { <<r>> : r \in {RowNone, RowOne, RowTwo} }
  /\ adapter = Outcomes(provider)
  /\ Start

\* cells of a prompt column: a missing value, or text of blanks and letters
CellChars == {" ", "a"}

Cells == {None} \cup SeqsUpTo(CellChars, MaxCellLen)

\* rows in which any of the prompt columns may be absent
ExtractRows == UNION { [D -> Cells] : D \in SUBSET {"prompt_1", "prompt_2", "prompt_3"} }

\* runs over one arbitrary input row, followed up to the extraction of its prompts
InitExtract ==
  /\ provider \in {"gemini", "openai"}
  /\ hasKey = TRUE
  /\ mode = "first"
  /\ csv_rows \in { <<r>> : r \in ExtractRows }
  /\ adapter = Outcomes(provider)
  /\ Start

\* ------------------------------------------------------------------ startup
\* gemini: raise SystemExit("Missing ...") - a string argument exits with status 1
GeminiMissingKeyExit == 1

OpenAIMissingKeyExit == 2

NoRowsExit == 3

MissingKeyExit(p) == IF p = "gemini" THEN GeminiMissingKeyExit ELSE OpenAIMissingKeyExit

RequireKey ==
  /\ pc = "start"
  /\ IF hasKey
     THEN pc' = "read" /\ exitCode' = exitCode
     ELSE pc' = "exit" /\ exitCode' = MissingKeyExit(provider)
  /\ UNCHANGED <<inputs, rows_in, loopVars, callVars, res, out_rows, output, writes, naps>>

ReadRows ==
  /\ pc = "read"
  /\ rows_in' = csv_rows
  /\ IF csv_rows = <<>>
     THEN pc' = "exit" /\ exitCode' = NoRowsExit /\ UNCHANGED <<selected, si, out_rows>>
     ELSE /\ selected' = Select(mode, csv_rows)
          /\ out_rows' = <<>>
          /\ si' = 1
          /\ pc' = "row"
          /\ exitCode' = exitCode
  /\ UNCHANGED <<inputs, prompts, j, callVars, res, output, writes, naps>>

\* ----------------------------------------------------------------- row loop
\* variant: the loop stops one row early
LoopDoneEarly(i, sel) == i >= Len(sel)

LoopDone(i, sel) == i > Len(sel)

NextRow ==
  /\ pc = "row"
  /\ IF LoopDone(si, selected)
     THEN pc' = "write" /\ UNCHANGED <<si, prompts, j>>
     ELSE LET ps == ensure_prompts(selected[si][2])
          IN /\ prompts' = ps
             /\ IF ps = <<>>
                THEN si' = si + 1 /\ pc' = "row" /\ j' = j
                ELSE si' = si /\ pc' = "call" /\ j' = 1
  /\ UNCHANGED <<inputs, exitCode, rows_in, selected, callVars, res, out_rows, output, writes, naps>>

\* --------------------------------------------------- one call per prompt
\* entry of call_gemini_safe / call_openai_chat_with_retries: the loop variable
\* takes the first value of its range
CallStart ==
  /\ pc = "call"
  /\ attempt' = IF provider = "gemini" THEN 0 ELSE 1
  /\ last_err' = <<>>
  /\ calls' = 0
  /\ failed' = {}
  /\ last' = NoOutcome
  /\ sleeps' = 0
  /\ pc' = "attempt"
  /\ UNCHANGED <<inputs, exitCode, rows_in, loopVars, res, out_rows, output, writes, naps>>

Observe(o) ==
  /\ calls' = calls + 1
  /\ last' = o
  /\ failed' = IF o.kind = "exc" THEN failed \cup {o} ELSE failed

\* variant: unknown failures are retried as well
GeminiOnFailureRetryUnknown(e) ==
  LET msg == lower(e.msg)
  IN IF IsRateLimited(msg) THEN "retry"
     ELSE IF IsSafetyBlock(msg) THEN "blocked"
     ELSE "retry"

\* what the except-branch of call_gemini_safe does with exception e
GeminiOnFailure(e) ==
  LET msg == lower(e.msg)
  IN IF IsRateLimited(msg) THEN "retry"
     ELSE IF IsSafetyBlock(msg) THEN "blocked"
     ELSE "error"

GeminiAttempt ==
  /\ pc = "attempt"
  /\ provider = "gemini"
  /\ attempt \in GeminiRange
  /\ \E o \in adapter :
       /\ Observe(o)
       /\ IF o.kind = "resp"
          THEN res' = GeminiSuccess(o) /\ pc' = "ret"
          ELSE LET what == GeminiOnFailure(o)
               IN /\ what = "retry"   => (pc' = "backoff" /\ res' = res)
                  /\ what = "blocked" => (pc' = "ret" /\ res' = GeminiBlocked)
                  /\ what = "error"   => (pc' = "ret" /\ res' = GeminiError(o))
  /\ UNCHANGED <<inputs, exitCode, rows_in, loopVars, attempt, last_err, sleeps,
                 out_rows, output, writes, naps>>

OpenAIAttempt ==
  /\ pc = "attempt"
  /\ provider = "openai"
  /\ attempt \in OpenAIRange
  /\ \E o \in adapter :
       /\ Observe(o)
       /\ IF o.kind = "resp"
          THEN res' = OpenAISuccess(o) /\ pc' = "ret" /\ last_err' = last_err
          ELSE \* both except clauses: remember the failure, fall through to the sleep
               last_err' = ErrText(o) /\ pc' = "backoff" /\ res' = res
  /\ UNCHANGED <<inputs, exitCode, rows_in, loopVars, attempt, sleeps,
                 out_rows, output, writes, naps>>

\* time.sleep(wait); continue  /  time.sleep(RETRY_BACKOFF ** (attempt-1)), next iteration
BackoffSleep ==
  /\ pc = "backoff"
  /\ sleeps' = sleeps + 1
  /\ attempt' = NextAttempt(attempt)
  /\ pc' = "attempt"
  /\ UNCHANGED <<inputs, exitCode, rows_in, loopVars, last_err, calls, failed, last,
                 res, out_rows, output, writes, naps>>

InRange(p, a) == IF p = "gemini" THEN a \in GeminiRange ELSE a \in OpenAIRange

\* variant: exhaustion raises instead of returning, and nothing catches it
GiveUpRaises ==
  /\ pc = "attempt"
  /\ ~InRange(provider, attempt)
  /\ pc' = "exit"
  /\ exitCode' = 1
  /\ UNCHANGED <<inputs, rows_in, loopVars, callVars, res, out_rows, output, writes, naps>>

\* the for loop is exhausted: the return after the loop
GiveUp ==
  /\ pc = "attempt"
  /\ ~InRange(provider, attempt)
  /\ res' = IF provider = "gemini" THEN GeminiExhausted ELSE OpenAIExhausted(last_err)
  /\ pc' = "ret"
  /\ UNCHANGED <<inputs, exitCode, rows_in, loopVars, callVars, out_rows, output, writes, naps>>

\* ------------------------------------------------------ accumulate and write
\* the controller has returned: its locals no longer exist
CallFrameGone ==
  /\ attempt' = 0
  /\ last_err' = <<>>
  /\ calls' = 0
  /\ failed' = {}
  /\ last' = NoOutcome
  /\ sleeps' = 0

Record(idx, n, p, r) ==
  [provider |-> provider, row_index |-> idx, prompt_id |-> <<"p", n>>,
   prompt_text |-> p, response_text |-> r.response_text, error |-> r.error]

AppendRecord ==
  /\ pc = "ret"
  /\ out_rows' = Append(out_rows, Record(selected[si][1], j, prompts[j], res))
  /\ pc' = "polite"
  /\ CallFrameGone
  /\ UNCHANGED <<inputs, exitCode, rows_in, loopVars, res, output, writes, naps>>

\* time.sleep(args.sleep), then the next prompt or the next row
PoliteSleep ==
  /\ pc = "polite"
  /\ naps' = naps + 1
  /\ IF j < Len(prompts)
     THEN j' = j + 1 /\ si' = si /\ pc' = "call"
     ELSE j' = j /\ si' = si + 1 /\ pc' = "row"
  /\ UNCHANGED <<inputs, exitCode, rows_in, selected, prompts, callVars, res,
                 out_rows, output, writes>>

WriteResults ==
  /\ pc = "write"
  /\ output' = out_rows
  /\ writes' = writes + 1
  /\ pc' = "done"
  /\ UNCHANGED <<inputs, exitCode, rows_in, loopVars, callVars, res, out_rows, naps>>

Next ==
  \/ RequireKey
  \/ ReadRows
  \/ NextRow
  \/ CallStart
  \/ GeminiAttempt
  \/ OpenAIAttempt
  \/ BackoffSleep
  \/ GiveUp
  \/ AppendRecord
  \/ PoliteSleep
  \/ WriteResults

Spec == Init /\ [][Next]_vars

\* main() from its start to ensure_prompts(row) of the first selected row
NextExtract ==
  \/ RequireKey
  \/ ReadRows
  \/ NextRow

ExtractSpec == InitExtract /\ [][NextExtract]_vars

CallSpec == InitCall /\ [][Next]_vars

\* the interpreter runs the single thread until the process ends
FairSpec == Spec /\ WF_vars(Next)

\* ======================================================================
\* Properties
\* ======================================================================

\* a cell holds a prompt when some character of it is not whitespace
IsPrompt(cell) == cell # None /\ \E i \in DOMAIN cell : cell[i] \notin Whitespace

PromptCount(row) ==
  Cardinality({c \in DOMAIN row \cap {"prompt_1", "prompt_2", "prompt_3"} : IsPrompt(row[c])})

RECURSIVE SumPrompts(_)
SumPrompts(rows) == IF rows = <<>> THEN 0 ELSE PromptCount(Head(rows)) + SumPrompts(Tail(rows))

SelectedRows == IF mode = "first" THEN <<csv_rows[1]>> ELSE csv_rows

RecordsOfRow(idx) == Cardinality({n \in DOMAIN out_rows : out_rows[n].row_index = idx})

Running == pc \notin {"start", "read", "exit"}

AtWriteStep == pc \in {"write", "done"}

MaxAttempts == IF provider = "gemini" THEN MAX_RETRIES ELSE RETRIES

\* failures whose text carries a rate-limit indicator ("rate", "quota", ...)
TransientFailures == {F_rate, F_quota_blocked}

\* failures whose text says "safety" or "blocked"
SafetyFailures == {F_blocked, F_quota_blocked}

\* failures that are neither
OtherFailures == {F_boom}

\* responses that carry text
TextResponses == {G_text, G_parts, O_text}

TheText == <<"o","k">>

Sentinels == {EMPTY, ERROR, BLOCKED, TOO_MANY, EMPTY_OR_BLOCKED(SAFETY), EMPTY_OR_BLOCKED(STOP)}

Returned == pc = "ret"

\* at the return of the controller, every adapter call made for the prompt has
\* failed with a rate-limit-like error
AllCallsRateLimited ==
  Returned /\ calls >= 1 /\ last \in TransientFailures /\ failed \subseteq TransientFailures

\* ---------------------------------------------------------------------- C1
C1_Count ==
  Running =>
    /\ \A k \in DOMAIN selected :
         k < si => RecordsOfRow(selected[k][1]) = PromptCount(selected[k][2])
    /\ AtWriteStep => Len(out_rows) = SumPrompts(SelectedRows)

C1_AppendStep ==
  \/ out_rows' = out_rows
  \/ /\ Len(out_rows') = Len(out_rows) + 1
     /\ SubSeq(out_rows', 1, Len(out_rows)) = out_rows

\* C1: at the write step the number of accumulated records equals the number of
\* non-empty (after trimming) prompts of the selected rows, every finished row
\* has contributed exactly as many records as it has prompts (a row without
\* prompts none), and the record list only ever grows by one appended record.
C1_RecordsMatchPrompts == [](C1_Count) /\ [][C1_AppendStep]_vars

C1_Witness ==
  /\ pc = "done"
  /\ mode = "all"
  /\ Len(selected) = 2
  /\ PromptCount(selected[1][2]) = 0
  /\ PromptCount(selected[2][2]) = 2
  /\ Len(out_rows) = 2

\* ---------------------------------------------------------------------- C2
\* C2: when every adapter call for a prompt fails with a rate-limit-like error,
\* the controller has called the adapter exactly MAX_RETRIES (gemini) or RETRIES
\* (openai) times when it returns, and it returns a result whose response_text
\* is a non-empty sentinel.
C2_ExhaustionAfterMaxCalls ==
  AllCallsRateLimited =>
    /\ calls = MaxAttempts
    /\ res.response_text \in Sentinels
    /\ res.response_text # <<>>

C2_Witness ==
  /\ provider = "gemini"
  /\ AllCallsRateLimited
  /\ calls = 6
  /\ res.response_text = TOO_MANY

\* ---------------------------------------------------------------------- C3
\* C3 as stated: after exhausting the attempts on rate-limited failures both
\* controllers return a sentinel response_text and an empty error.
C3_Original ==
  AllCallsRateLimited => (res.response_text \in Sentinels /\ res.error = <<>>)

\* C3 amended: after exhausting the attempts on rate-limited failures,
\* call_gemini_safe returns the retry-exhaustion sentinel with an empty error,
\* and call_openai_chat_with_retries returns "[ERROR]" with error set to the
\* description of the last failure.
C3_ExhaustionResult ==
  AllCallsRateLimited =>
    /\ provider = "gemini" => res = Result(TOO_MANY, <<>>)
    /\ provider = "openai" =>
         (res.response_text = ERROR /\ res.error = ErrText(last) /\ res.error # <<>>)

C3_Witness ==
  /\ provider = "openai"
  /\ AllCallsRateLimited
  /\ calls = 3
  /\ res = Result(ERROR, RateLimitError \o <<":", " ", "R", "a", "t", "e">>)

\* ---------------------------------------------------------------------- C4
\* C4: when the adapter fails with rate-limit-like errors and then succeeds on
\* call N, the controller is at its return right after call N with the
\* provider's text and an empty error, having slept once per failed call; it
\* does not return on a rate-limit-like failure while attempts remain.
C4_SuccessOnNthCall ==
  /\ (last \in TextResponses /\ failed \subseteq TransientFailures) =>
       /\ Returned
       /\ res = Result(TheText, <<>>)
       /\ calls \in 1..MaxAttempts
       /\ sleeps = calls - 1
  /\ (Returned /\ last \in TransientFailures /\ failed \subseteq TransientFailures) =>
       calls >= MaxAttempts

C4_Witness ==
  /\ provider = "gemini"
  /\ Returned
  /\ last \in TextResponses
  /\ failed = {F_rate}
  /\ calls = 6
  /\ res = Result(TheText, <<>>)

\* ---------------------------------------------------------------------- C5
\* C5 as stated: in both controllers a failure that is neither rate-limit-like
\* nor a content-safety block ends the call at once with an error result: no
\* backoff sleep and no further adapter call follow it.
C5_Original ==
  last \in OtherFailures => (Returned /\ res.error # <<>> /\ sleeps = calls - 1)

\* C5 amended: call_gemini_safe returns "[ERROR]" with the error field
\* populated immediately on such a failure, with no backoff sleep and no
\* further adapter call; call_openai_chat_with_retries treats it like every
\* other failure: it sleeps and retries while attempts remain, and returns
\* "[ERROR]" with the error field populated only after RETRIES failed calls.
C5_OtherFailure ==
  last \in OtherFailures =>
    /\ provider = "gemini" =>
         /\ Returned
         /\ res = Result(ERROR, ErrText(last))
         /\ res.error # <<>>
         /\ sleeps = calls - 1
    /\ provider = "openai" =>
         /\ pc \in {"backoff", "attempt", "ret"}
         /\ Returned => (calls = RETRIES /\ sleeps = RETRIES
                         /\ res = Result(ERROR, ErrText(last)) /\ res.error # <<>>)

C5_Witness ==
  /\ provider = "gemini"
  /\ Returned
  /\ last = F_boom
  /\ calls = 2
  /\ sleeps = 1
  /\ res.response_text = ERROR

\* ---------------------------------------------------------------------- C6
\* C6 as stated: in both controllers a failure whose text says "safety" or
\* "blocked", whatever else it says, is never retried and ends the call with a
\* sentinel response_text and an empty error.
C6_Original ==
  last \in SafetyFailures => (Returned /\ res.response_text \in Sentinels /\ res.error = <<>>)

\* C6 amended: call_gemini_safe tests the rate-limit indicators first: a
\* failure whose text says "safety" or "blocked" and carries no rate-limit
\* indicator is never retried and yields "(blocked)" with an empty error, one
\* that also carries a rate-limit indicator is retried as rate-limited, and a
\* failure with neither is an error; call_openai_chat_with_retries does not
\* classify failures: a safety block is retried like any failure and after
\* RETRIES failed calls yields "[ERROR]" with the error field populated.
C6_SafetyBlock ==
  /\ (provider = "gemini" /\ last \in SafetyFailures \ TransientFailures) =>
       (Returned /\ res = Result(BLOCKED, <<>>) /\ sleeps = calls - 1)
  /\ (provider = "gemini" /\ last \in SafetyFailures \cap TransientFailures) =>
       /\ pc \in {"backoff", "attempt", "ret"}
       /\ Returned => (calls = MAX_RETRIES /\ res = Result(TOO_MANY, <<>>))
  /\ (provider = "gemini" /\ last \in Failures \ (SafetyFailures \cup TransientFailures)) =>
       (Returned /\ res.response_text = ERROR /\ res.error # <<>>)
  /\ (provider = "openai" /\ last \in SafetyFailures) =>
       /\ pc \in {"backoff", "attempt", "ret"}
       /\ Returned => (calls = RETRIES /\ res = Result(ERROR, ErrText(last)))

C6_Witness ==
  /\ provider = "gemini"
  /\ Returned
  /\ last = F_blocked
  /\ res = Result(BLOCKED, <<>>)

AllWritten == pc = "done" /\ writes = 1 /\ Len(output) = SumPrompts(SelectedRows)

\* C8: once the startup checks have passed, whatever the provider does for
\* each prompt, the run goes on to the CSV write with one record for every
\* prompt of every selected row.
C8_RunReachesWrite == Running ~> AllWritten

C8_Witness ==
  /\ AllWritten
  /\ Len(output) = 2
  /\ output[1].error # <<>>
  /\ output[2].response_text = TheText

\* ---------------------------------------------------------------------- C9
\* C9: a startup failure ends the process before any provider call, with exit
\* code 2 when the credential variable is absent and 3 when the input has no
\* data rows.
C9_StartupExitCodes ==
  pc = "exit" =>
    /\ ~hasKey => exitCode = 2
    /\ (hasKey /\ csv_rows = <<>>) => exitCode = 3
    /\ calls = 0 /\ last = NoOutcome /\ out_rows = <<>>

\* --------------------------------------------------------------------- C10
\* C10: the output is written at most once, only when every prompt of every
\* selected row has been called and recorded, and never on a startup failure.
C10_WriteOnceAtEnd ==
  /\ writes <= 1
  /\ writes = 0 => output = NotWritten
  /\ writes = 1 =>
       /\ pc = "done"
       /\ si > Len(selected)
       /\ output = out_rows
       /\ Len(output) = SumPrompts(SelectedRows)
  /\ pc = "exit" => (writes = 0 /\ output = NotWritten)

C10_Witness ==
  /\ pc = "done"
  /\ writes = 1
  /\ mode = "all"
  /\ Len(selected) = 2
  /\ Len(output) = 2
  /\ output[1].row_index = 2
  /\ output[2].row_index = 3

\* --------------------------------------------------------------------- C11
\* the cell without its leading and trailing whitespace
Trimmed(cell) ==
  LET ink == {i \in DOMAIN cell : cell[i] \notin Whitespace}
      lo == CHOOSE i \in ink : \A k \in ink : i <= k
      hi == CHOOSE i \in ink : \A k \in ink : k <= i
  IN SubSeq(cell, lo, hi)

RECURSIVE ExpectedOfCols(_, _)
ExpectedOfCols(row, cols) ==
  IF cols = <<>> THEN <<>>
  ELSE (IF Head(cols) \in DOMAIN row /\ IsPrompt(row[Head(cols)])
        THEN <<Trimmed(row[Head(cols)])>> ELSE <<>>)
       \o ExpectedOfCols(row, Tail(cols))

\* the prompts of a row: its non-empty prompt cells, trimmed, in column order
ExpectedPrompts(row) == ExpectedOfCols(row, <<"prompt_1", "prompt_2", "prompt_3">>)

RowKeys(idx, row) ==
  [n \in 1..Len(ExpectedPrompts(row)) |-> <<idx, <<"p", n>>, ExpectedPrompts(row)[n]>>]

RECURSIVE ExpectedKeysFrom(_, _)
ExpectedKeysFrom(rows, k) ==
  IF k > Len(rows) THEN <<>>
  ELSE RowKeys((k - 1) + 2, rows[k]) \o ExpectedKeysFrom(rows, k + 1)

\* (row_index, prompt position, prompt) of every call of the run, in call order
ExpectedKeys == ExpectedKeysFrom(SelectedRows, 1)

KeysOf(recs) == [n \in DOMAIN recs |-> <<recs[n].row_index, recs[n].prompt_id, recs[n].prompt_text>>]

IsPrefixOf(a, b) == Len(a) <= Len(b) /\ SubSeq(b, 1, Len(a)) = a

\* C11: the accumulated records are in call order: rows in input order and
\* within a row prompts in column order with positions 1..k; in 'all' mode the
\* records of the data row at 0-based position i carry row_index i+2, in
\* 'first' mode only the first data row is processed and carries row_index 2.
C11_RecordsInCallOrder ==
  Running =>
    /\ IsPrefixOf(KeysOf(out_rows), ExpectedKeys)
    /\ AtWriteStep => KeysOf(out_rows) = ExpectedKeys
    /\ mode = "first" => \A n \in DOMAIN out_rows : out_rows[n].row_index = 2

C11_Witness ==
  /\ pc = "done"
  /\ mode = "all"
  /\ csv_rows = <<RowOne, RowTwo>>
  /\ KeysOf(out_rows) = << <<2, <<"p", 1>>, <<"a">> >>,
                           <<3, <<"p", 1>>, <<"a">> >>,
                           <<3, <<"p", 2>>, <<"b">> >> >>

\* --------------------------------------------------------------------- C12
\* ensure_prompts(row) of the first row has been evaluated
Extracted == pc = "call" \/ (pc \in {"row", "write"} /\ si = 2)

\* C12: for a row in which k of prompt_1, prompt_2, prompt_3 are non-empty
\* after trimming (a missing column or value counting as empty),
\* ensure_prompts returns exactly k entries: the trimmed values of those
\* columns in column order.
C12_ExtractedPrompts ==
  Extracted =>
    /\ Len(prompts) = PromptCount(csv_rows[1])
    /\ prompts = ExpectedPrompts(csv_rows[1])
    /\ \A n \in DOMAIN prompts :
         prompts[n] # <<>> /\ prompts[n][1] \notin Whitespace
                           /\ prompts[n][Len(prompts[n])] \notin Whitespace

C12_Witness ==
  /\ pc = "call"
  /\ DOMAIN csv_rows[1] = {"prompt_1", "prompt_3"}
  /\ csv_rows[1]["prompt_1"] = <<" ", "a", " ">>
  /\ csv_rows[1]["prompt_3"] = <<"a", " ", "a">>
  /\ prompts = << <<"a">>, <<"a", " ", "a">> >>

\* --------------------------------------------------------------------- C13
\* C13: every backoff sleep lies between two adapter attempts for the same
\* prompt, so another attempt follows it and none has been taken after the
\* final attempt or a terminal outcome when the controller returns; and exactly
\* one politeness sleep follows each completed per-prompt call.
C13_SleepPoints ==
  /\ (pc = "attempt" /\ sleeps >= 1) => calls < MaxAttempts
  /\ Returned => sleeps = calls - 1
  /\ Running => naps = Len(out_rows) - (IF pc = "polite" THEN 1 ELSE 0)

====
